---- MODULE Spec2Model ----
(***************************************************************************)
(* B3 propagator (opentelemetry.sdk.trace.propagation.b3_format).          *)
(*                                                                         *)
(* Representation.  A Python str is a sequence of one-character strings.   *)
(* A Python int identifier is its canonical base-16 digit sequence (most   *)
(* significant digit first, no leading zero, 0 is <<>>), so that 128-bit   *)
(* trace ids are represented exactly.  An Optional[...] is a sequence of   *)
(* length 0 (None) or 1.  A carrier maps each header key to the sequence   *)
(* of values the getter returns for it (<<>> when the key is absent).      *)
(***************************************************************************)
EXTENDS Integers, Sequences, FiniteSets

VARIABLES carrier, span, writes, generated, lastOp, sent, calls

vars == <<carrier, span, writes, generated, lastOp, sent, calls>>

-----------------------------------------------------------------------------
(* Bounds of the model *)

\* propagator calls (extract / inject) explored after a request or a new span
MaxCalls == 2
\* extra values of a repeated header that follow the first value
MaxRepeat == 1

-----------------------------------------------------------------------------
(* Header keys and constants of the class *)

SINGLE_HEADER_KEY == "b3"
TRACE_ID_KEY == "x-b3-traceid"
SPAN_ID_KEY == "x-b3-spanid"
PARENT_SPAN_ID_KEY == "x-b3-parentspanid"
SAMPLED_KEY == "x-b3-sampled"
FLAGS_KEY == "x-b3-flags"

Keys ==
  {SINGLE_HEADER_KEY, TRACE_ID_KEY, SPAN_ID_KEY, PARENT_SPAN_ID_KEY,
   SAMPLED_KEY, FLAGS_KEY}

SAMPLE_PROPAGATE_VALUES_NoDebug ==
  {<<"1">>, <<"T", "r", "u", "e">>, <<"t", "r", "u", "e">>}

SAMPLE_PROPAGATE_VALUES ==
  {<<"1">>, <<"T", "r", "u", "e">>, <<"t", "r", "u", "e">>, <<"d">>}

-----------------------------------------------------------------------------
(* Hexadecimal text *)

LowerHex ==
  <<"0", "1", "2", "3", "4", "5", "6", "7", "8", "9",
    "a", "b", "c", "d", "e", "f">>

UpperHex ==
  <<"0", "1", "2", "3", "4", "5", "6", "7", "8", "9",
    "A", "B", "C", "D", "E", "F">>

\* [\da-fA-F]
IsHexChar(c) == \E v \in 1..16 : LowerHex[v] = c \/ UpperHex[v] = c

HexVal(c) == CHOOSE v \in 0..15 : LowerHex[v + 1] = c \/ UpperHex[v + 1] = c

Zeros(n) == [i \in 1..n |-> "0"]

\* _trace_id_regex.fullmatch(s) is not None
trace_id_regex(s) ==
  /\ Len(s) = 16 \/ Len(s) = 32
  /\ \A i \in 1..Len(s) : IsHexChar(s[i])

\* _span_id_regex.fullmatch(s) is not None
span_id_regex(s) ==
  /\ Len(s) = 16
  /\ \A i \in 1..Len(s) : IsHexChar(s[i])

RECURSIVE StripZeros(_)
StripZeros(d) ==
  IF d = <<>> THEN <<>>
  ELSE IF d[1] = 0 THEN StripZeros(Tail(d))
  ELSE d

\* int(s, 16) for a string of hex digits
IntBase16(s) == StripZeros([i \in 1..Len(s) |-> HexVal(s[i])])

\* format(n, "0<width>x"): lowercase hex, zero-padded to at least width
FormatHex(n, width) ==
  LET digits == [i \in 1..Len(n) |-> LowerHex[n[i] + 1]]
  IN  IF Len(digits) >= width THEN digits
      ELSE Zeros(width - Len(digits)) \o digits

format_trace_id(trace_id) == FormatHex(trace_id, 32)

format_span_id_Short(span_id) == FormatHex(span_id, 8)

format_span_id(span_id) == FormatHex(span_id, 16)

\* str.split(sep, maxsplit)
RECURSIVE Split(_, _, _)
Split(s, sep, maxsplit) ==
  IF maxsplit = 0 \/ ~(\E i \in 1..Len(s) : s[i] = sep) THEN <<s>>
  ELSE LET i == CHOOSE j \in 1..Len(s) :
                  /\ s[j] = sep
                  /\ \A k \in 1..(j - 1) : s[k] # sep
       IN  <<SubSeq(s, 1, i - 1)>> \o
           Split(SubSeq(s, i + 1, Len(s)), sep, maxsplit - 1)

-----------------------------------------------------------------------------
(* Optional values and the carrier accessors *)

None == <<>>

\* the truth value of an Optional[str]: None and "" are false
Truthy(opt) == opt # <<>> /\ opt[1] # <<>>

\* (opt or default), default a str
OrElse(opt, default) == IF Truthy(opt) THEN opt[1] ELSE default

\* (opt or None)
OrNone(opt) == IF Truthy(opt) THEN opt ELSE None

\* _extract_first_element(items)
extract_first_element(items) ==
  IF items = <<>> THEN None ELSE <<items[1]>>

\* get_from_carrier(carrier, key)
Get(c, key) == c[key]

\* set_in_carrier(carrier, key, value)
Set(c, key, value) == [c EXCEPT ![key] = <<value>>]

EmptyCarrier == [k \in Keys |-> <<>>]

-----------------------------------------------------------------------------
(* Span contexts *)

INVALID_TRACE_ID == <<>>
INVALID_SPAN_ID == <<>>

SpanContext(trace_id, span_id, is_remote, sampled) ==
  [trace_id |-> trace_id, span_id |-> span_id,
   is_remote |-> is_remote, sampled |-> sampled]

\* trace.INVALID_SPAN_CONTEXT, the context of trace.INVALID_SPAN
INVALID_SPAN_CONTEXT ==
  SpanContext(INVALID_TRACE_ID, INVALID_SPAN_ID, FALSE, FALSE)

-----------------------------------------------------------------------------
(* B3Format.extract *)

Parsed(trace_id, span_id, sampled, flags, malformed) ==
  [trace_id |-> trace_id, span_id |-> span_id, sampled |-> sampled,
   flags |-> flags, malformed |-> malformed]

\* the working values before any header is read (lines 51-54)
Defaults ==
  Parsed(format_trace_id(INVALID_TRACE_ID), format_span_id(INVALID_SPAN_ID),
         <<"0">>, None, FALSE)

ParseSingleHeader_FiveAsFour(single_header) ==
  LET fields == Split(single_header, "-", 4)
      d == Defaults
  IN  IF Len(fields) = 1
        THEN Parsed(d.trace_id, d.span_id, fields[1], d.flags, FALSE)
      ELSE IF Len(fields) = 2
        THEN Parsed(fields[1], fields[2], <<"1">>, d.flags, FALSE)
      ELSE Parsed(fields[1], fields[2], fields[3], d.flags, FALSE)

ParseSingleHeader_TwoUnsampled(single_header) ==
  LET fields == Split(single_header, "-", 4)
      d == Defaults
  IN  IF Len(fields) = 1
        THEN Parsed(d.trace_id, d.span_id, fields[1], d.flags, FALSE)
      ELSE IF Len(fields) = 2
        THEN Parsed(fields[1], fields[2], d.sampled, d.flags, FALSE)
      ELSE IF Len(fields) = 3 \/ Len(fields) = 4
        THEN Parsed(fields[1], fields[2], fields[3], d.flags, FALSE)
      ELSE Parsed(d.trace_id, d.span_id, <<"1">>, d.flags, TRUE)

\* the branch taken when the b3 header is present and non-empty (lines 59-75)
ParseSingleHeader(single_header) ==
  LET fields == Split(single_header, "-", 4)
      d == Defaults
  IN  IF Len(fields) = 1
        THEN Parsed(d.trace_id, d.span_id, fields[1], d.flags, FALSE)
      ELSE IF Len(fields) = 2
        THEN Parsed(fields[1], fields[2], <<"1">>, d.flags, FALSE)
      ELSE IF Len(fields) = 3
        THEN Parsed(fields[1], fields[2], fields[3], d.flags, FALSE)
      ELSE IF Len(fields) = 4
        THEN Parsed(fields[1], fields[2], fields[3], d.flags, FALSE)
      ELSE Parsed(d.trace_id, d.span_id, <<"1">>, d.flags, TRUE)

\* the branch taken otherwise: the four discrete headers (lines 76-100)
ParseDiscrete(c) ==
  LET d == Defaults
  IN  Parsed(
        OrElse(extract_first_element(Get(c, TRACE_ID_KEY)), d.trace_id),
        OrElse(extract_first_element(Get(c, SPAN_ID_KEY)), d.span_id),
        OrElse(extract_first_element(Get(c, SAMPLED_KEY)), d.sampled),
        OrNone(extract_first_element(Get(c, FLAGS_KEY))),
        FALSE)

Result(context, gen_called) ==
  [context |-> context, generated |-> gen_called]

Resolve_Local(p, gen) ==
  LET valid == trace_id_regex(p.trace_id) /\ span_id_regex(p.span_id)
      sampled == IF valid THEN p.sampled ELSE <<"0">>
  IN  Result(
        SpanContext(
          IF valid THEN IntBase16(p.trace_id) ELSE gen[1],
          IF valid THEN IntBase16(p.span_id) ELSE gen[2],
          FALSE,
          sampled \in SAMPLE_PROPAGATE_VALUES \/ p.flags = <<<<"1">>>>),
        ~valid)

\* validation, sampling decision and construction (lines 102-133);
\* gen is the pair <<generate_trace_id(), generate_span_id()>> would return
Resolve(p, gen) ==
  LET valid == trace_id_regex(p.trace_id) /\ span_id_regex(p.span_id)
      sampled == IF valid THEN p.sampled ELSE <<"0">>
  IN  Result(
        SpanContext(
          IF valid THEN IntBase16(p.trace_id) ELSE gen[1],
          IF valid THEN IntBase16(p.span_id) ELSE gen[2],
          TRUE,
          sampled \in SAMPLE_PROPAGATE_VALUES \/ p.flags = <<<<"1">>>>),
        ~valid)

extract_MergeFlags(c, gen) ==
  LET single_header == extract_first_element(Get(c, SINGLE_HEADER_KEY))
  IN  IF Truthy(single_header)
        THEN LET p == ParseSingleHeader(single_header[1])
                 q == [p EXCEPT !.flags =
                         OrNone(extract_first_element(Get(c, FLAGS_KEY)))]
             IN  IF p.malformed THEN Result(INVALID_SPAN_CONTEXT, FALSE)
                 ELSE Resolve(q, gen)
        ELSE Resolve(ParseDiscrete(c), gen)

\* B3Format.extract: the span context of the returned context, and whether
\* the identifier generator was called
extract(c, gen) ==
  LET single_header == extract_first_element(Get(c, SINGLE_HEADER_KEY))
  IN  IF Truthy(single_header)
        THEN LET p == ParseSingleHeader(single_header[1])
             IN  IF p.malformed THEN Result(INVALID_SPAN_CONTEXT, FALSE)
                 ELSE Resolve(p, gen)
        ELSE Resolve(ParseDiscrete(c), gen)

-----------------------------------------------------------------------------
(* B3Format.inject *)

Span(context, parent) == [context |-> context, parent |-> parent]

Write(key, value) == [key |-> key, value |-> value]

inject_AlwaysParent(sp) ==
  IF sp.context = INVALID_SPAN_CONTEXT THEN <<>>
  ELSE <<Write(TRACE_ID_KEY, format_trace_id(sp.context.trace_id)),
         Write(SPAN_ID_KEY, format_span_id(sp.context.span_id)),
         Write(PARENT_SPAN_ID_KEY,
               IF sp.parent # None THEN format_span_id(sp.parent[1])
               ELSE <<>>),
         Write(SAMPLED_KEY, IF sp.context.sampled THEN <<"1">> ELSE <<"0">>)>>

\* B3Format.inject: the setter calls it makes, in order
inject(sp) ==
  IF sp.context = INVALID_SPAN_CONTEXT THEN <<>>
  ELSE <<Write(TRACE_ID_KEY, format_trace_id(sp.context.trace_id)),
         Write(SPAN_ID_KEY, format_span_id(sp.context.span_id))>>
       \o (IF sp.parent # None
             THEN <<Write(PARENT_SPAN_ID_KEY, format_span_id(sp.parent[1]))>>
             ELSE <<>>)
       \o <<Write(SAMPLED_KEY,
                  IF sp.context.sampled THEN <<"1">> ELSE <<"0">>)>>

RECURSIVE ApplyWrites(_, _)
ApplyWrites(c, ws) ==
  IF ws = <<>> THEN c
  ELSE ApplyWrites(Set(c, ws[1].key, ws[1].value), Tail(ws))

-----------------------------------------------------------------------------
(* Inputs: header values of incoming requests, span contexts of local spans,
   identifiers the generator may return *)

\* "4bF92f3577b34da6a3ce929d0e0e4736": 32 hex characters, mixed case
T32 ==
  <<"4", "b", "F", "9", "2", "f", "3", "5", "7", "7", "b", "3", "4", "d", "a",
    "6", "a", "3", "c", "e", "9", "2", "9", "d", "0", "e", "0", "e", "4", "7",
    "3", "6">>
\* "000000000000AbCd": 16 hex characters
T16 == Zeros(12) \o <<"A", "b", "C", "d">>
\* 16 characters, one of them no hex digit
TNotHex == Zeros(15) \o <<"g">>
\* 17 hex characters
TLen17 == <<"1">> \o Zeros(16)
\* "nothex"
NotHex == <<"n", "o", "t", "h", "e", "x">>

\* "00f067aa0ba902b7"
S16 ==
  <<"0", "0", "f", "0", "6", "7", "a", "a", "0", "b", "a", "9", "0", "2",
    "b", "7">>
\* "0123456789ABCDEF"
S16Upper ==
  <<"0", "1", "2", "3", "4", "5", "6", "7", "8", "9", "A", "B", "C", "D",
    "E", "F">>

TraceStrs == {T32, T16, TNotHex, TLen17}
\* T32 has a trace id's length but not a span id's
SpanStrs == {S16, T32, NotHex}
SampledStrs ==
  {<<"1">>, <<"0">>, <<"d">>, <<"t", "r", "u", "e">>,
   <<"T", "r", "u", "e">>, <<"f", "a", "l", "s", "e">>}
FlagsStrs == {<<"1">>, <<"0">>}
ParentStrs == {S16Upper, NotHex}

RECURSIVE Join(_)
Join(fields) ==
  IF Len(fields) = 1 THEN fields[1]
  ELSE fields[1] \o <<"-">> \o Join(Tail(fields))

\* values of the b3 header with 2 to MaxFields fields; the fields after
\* the fourth are "x"
MaxFields == 5

B3Multi ==
  {Join(SubSeq(<<t, s, sm, p>> \o [i \in 1..(MaxFields - 4) |-> <<"x">>],
               1, n)) :
     t \in {T32, T16, TNotHex}, s \in {S16, NotHex},
     sm \in SampledStrs, p \in ParentStrs, n \in 2..MaxFields}

\* "a-b-c-d-e"
B3Letters == <<"a", "-", "b", "-", "c", "-", "d", "-", "e">>

B3Values == SampledStrs \cup {S16} \cup B3Multi \cup {B3Letters}

Carrier(b, t, s, sm, fl) ==
  [k \in Keys |->
     IF k = SINGLE_HEADER_KEY THEN b
     ELSE IF k = TRACE_ID_KEY THEN t
     ELSE IF k = SPAN_ID_KEY THEN s
     ELSE IF k = SAMPLED_KEY THEN sm
     ELSE IF k = FLAGS_KEY THEN fl
     ELSE <<>>]

\* the value lists of a header: absent, or one value (possibly "")
OneOf(strs) == {<<>>} \cup {<<v>> : v \in strs}

\* carriers whose b3 header is absent or empty: every combination of the
\* discrete headers
DiscreteCarriers ==
  {Carrier(b, t, s, sm, fl) :
     b \in {<<>>, <<<<>>>>},
     t \in OneOf({T32, T16, TNotHex, TLen17, <<>>}),
     s \in OneOf({S16, T32, NotHex}),
     sm \in OneOf(SampledStrs \cup {<<>>}),
     fl \in OneOf(FlagsStrs)}

\* the discrete headers that accompany a non-empty b3 header
DiscreteProfiles ==
  {Carrier(<<>>, <<>>, <<>>, <<>>, <<>>),
   Carrier(<<>>, <<T16>>, <<S16Upper>>, <<<<"1">>>>, <<<<"1">>>>),
   Carrier(<<>>, <<T16>>, <<S16Upper>>, <<<<"0">>>>, <<>>),
   Carrier(<<>>, <<TNotHex>>, <<S16Upper>>, <<>>, <<<<"1">>>>),
   Carrier(<<>>, <<>>, <<>>, <<>>, <<<<"1">>>>),
   Carrier(<<>>, <<>>, <<>>, <<<<"t", "r", "u", "e">>>>, <<>>)}

CombinedCarriers ==
  {[d EXCEPT ![SINGLE_HEADER_KEY] = <<b>>] :
     b \in B3Values, d \in DiscreteProfiles}

\* a carrier whose present headers are repeated: n further values "1"
\* follow the first value of each
Repeated(c, n) ==
  [k \in Keys |->
     IF c[k] = <<>> THEN <<>> ELSE c[k] \o [i \in 1..n |-> <<"1">>]]

RepeatedCarriers ==
  {Repeated(c, n) :
     c \in DiscreteProfiles \cup
           {[d EXCEPT ![SINGLE_HEADER_KEY] = <<b>>] :
              b \in {<<>>, T16 \o <<"-">> \o S16 \o <<"-">> \o <<"0">>},
              d \in DiscreteProfiles},
     n \in 1..MaxRepeat}

Carriers == DiscreteCarriers \cup CombinedCarriers \cup RepeatedCarriers

\* identifiers of local spans: 0, 0xab, 2^64, 2^128 - 1
TraceIds == {<<>>, <<10, 11>>, <<1>> \o [i \in 1..16 |-> 0], [i \in 1..32 |-> 15]}
\* 0, 1, 2^64 - 1, and 2^64, which is no 64-bit value
SpanIds == {<<>>, <<1>>, [i \in 1..16 |-> 15], <<1>> \o [i \in 1..16 |-> 0]}
ParentIds == {<<>>, <<12, 0, 15, 15, 14, 14>>}

Spans ==
  {Span(SpanContext(t, s, r, sm), p) :
     t \in TraceIds, s \in SpanIds, r \in BOOLEAN, sm \in BOOLEAN,
     p \in {None} \cup {<<q>> : q \in ParentIds}}

\* pairs <<generate_trace_id(), generate_span_id()>>: nonzero, and none of
\* them the value of a header of Carriers
Generated ==
  {<<<<7, 7>>, <<5>>>>, <<[i \in 1..32 |-> 14], [i \in 1..16 |-> 13]>>}

-----------------------------------------------------------------------------
(* The state machine.  The propagator keeps no state between calls, so a
   behaviour is one scenario: a request arrives or a local span starts, and
   up to MaxCalls propagator calls follow.  carrier is the carrier at hand; span the active span;
   writes the setter calls of the last inject; generated the identifiers the
   last extract took from the generator (None when it did not call it); sent
   the span and the carrier of the last inject into the carrier at hand. *)

Init ==
  /\ carrier = EmptyCarrier
  /\ span = Span(INVALID_SPAN_CONTEXT, None)
  /\ writes = <<>>
  /\ generated = None
  /\ lastOp = "init"
  /\ sent = None
  /\ calls = 0

\* a request arrives with carrier c; no span is active yet
NewRequest(c) ==
  /\ lastOp = "init"
  /\ carrier' = c
  /\ span' = Span(INVALID_SPAN_CONTEXT, None)
  /\ writes' = <<>>
  /\ generated' = None
  /\ lastOp' = "request"
  /\ sent' = None
  /\ calls' = 0

\* the application makes sp the active span, with a fresh outgoing carrier
StartSpan(sp) ==
  /\ lastOp = "init"
  /\ carrier' = EmptyCarrier
  /\ span' = sp
  /\ writes' = <<>>
  /\ generated' = None
  /\ lastOp' = "span"
  /\ sent' = None
  /\ calls' = 0

\* extract(getter, carrier); the span of the returned context becomes active
Extract(gen) ==
  /\ calls < MaxCalls
  /\ LET r == extract(carrier, gen)
     IN  /\ span' = Span(r.context, None)
         /\ generated' = IF r.generated THEN <<gen>> ELSE None
  /\ lastOp' = "extract"
  /\ calls' = calls + 1
  /\ UNCHANGED <<carrier, writes, sent>>

\* inject(setter, carrier) with the active span
Inject ==
  /\ calls < MaxCalls
  /\ writes' = inject(span)
  /\ carrier' = ApplyWrites(carrier, inject(span))
  /\ sent' = <<[span |-> span, carrier |-> carrier]>>
  /\ lastOp' = "inject"
  /\ calls' = calls + 1
  /\ UNCHANGED <<span, generated>>

Next ==
  \/ \E c \in Carriers : NewRequest(c)
  \/ \E sp \in Spans : StartSpan(sp)
  \/ \E gen \in Generated : Extract(gen)
  \/ Inject

Spec == Init /\ [][Next]_vars

-----------------------------------------------------------------------------
(* Vocabulary of the properties, stated on the carrier text itself *)

TruthySpellings ==
  {<<"1">>, <<"T", "r", "u", "e">>, <<"t", "r", "u", "e">>, <<"d">>}

\* s consists of hex digits only and its length is one of lens
HexOfLength(s, lens) ==
  /\ Len(s) \in lens
  /\ \A i \in 1..Len(s) :
       s[i] \in {"0", "1", "2", "3", "4", "5", "6", "7", "8", "9",
                 "a", "b", "c", "d", "e", "f", "A", "B", "C", "D", "E", "F"}

HasB3(c) == c[SINGLE_HEADER_KEY] # <<>> /\ c[SINGLE_HEADER_KEY][1] # <<>>

B3(c) == c[SINGLE_HEADER_KEY][1]

\* the number of '-' separators of s
Separators(s) == Cardinality({i \in 1..Len(s) : s[i] = "-"})

\* all the fields of s, however many
Fields(s) == Split(s, "-", Len(s))

\* the first value of header k, "" when there is none
First(c, k) == IF c[k] = <<>> THEN <<>> ELSE c[k][1]

Extracted == lastOp = "extract"

Injected == lastOp = "inject"

\* C1: a span context with nonzero trace_id below 2^128 and nonzero span_id
\* below 2^64, no parent, injected into an empty carrier and extracted from
\* that carrier, comes back with the same trace_id, span_id and sampled flag.
RoundTripPre ==
  /\ Extracted
  /\ sent # None
  /\ sent[1].carrier = EmptyCarrier
  /\ sent[1].span.parent = None
  /\ Len(sent[1].span.context.trace_id) \in 1..32
  /\ Len(sent[1].span.context.span_id) \in 1..16

RoundTrip ==
  RoundTripPre =>
    /\ span.context.trace_id = sent[1].span.context.trace_id
    /\ span.context.span_id = sent[1].span.context.span_id
    /\ span.context.sampled = sent[1].span.context.sampled

RoundTripWitness ==
  /\ RoundTripPre
  /\ sent[1].span.context.trace_id = [i \in 1..32 |-> 15]
  /\ sent[1].span.context.span_id = <<1>>
  /\ sent[1].span.context.sampled
  /\ span.context.sampled

\* the identifiers extract takes from the carrier: the first two fields of
\* the b3 header, or the discrete headers (the zero defaults when absent)
TakenTraceId(c) ==
  IF HasB3(c) THEN Fields(B3(c))[1]
  ELSE IF First(c, TRACE_ID_KEY) = <<>> THEN Zeros(32)
  ELSE First(c, TRACE_ID_KEY)

TakenSpanId(c) ==
  IF HasB3(c) THEN Fields(B3(c))[2]
  ELSE IF First(c, SPAN_ID_KEY) = <<>> THEN Zeros(16)
  ELSE First(c, SPAN_ID_KEY)

\* the carrier supplies identifiers, and one of them fails validation
InvalidIdsPre ==
  /\ Extracted
  /\ HasB3(carrier) => Separators(B3(carrier)) \in 1..3
  /\ \/ ~HexOfLength(TakenTraceId(carrier), {16, 32})
     \/ ~HexOfLength(TakenSpanId(carrier), {16})

\* C2: when the trace id or the span id taken from the carrier fails
\* validation, extract returns the generator's trace_id and span_id and
\* sampled = false, whatever x-b3-sampled, x-b3-flags and the b3 sampled
\* field hold.
InvalidIdsUnsampled ==
  InvalidIdsPre =>
    /\ generated # None
    /\ span.context.trace_id = generated[1][1]
    /\ span.context.span_id = generated[1][2]
    /\ ~span.context.sampled

\* the part of C2 the code keeps: the generator's identifiers are returned
InvalidIdsGenerated ==
  InvalidIdsPre =>
    /\ generated # None
    /\ span.context.trace_id = generated[1][1]
    /\ span.context.span_id = generated[1][2]

\* C3: with a non-empty b3 header, extract returns what it returns for the
\* carrier stripped of its discrete headers; valid b3 identifiers are the
\* ones returned, also when valid discrete identifiers differ from them.
OnlyB3(c) == [k \in Keys |-> IF k = SINGLE_HEADER_KEY THEN c[k] ELSE <<>>]

CombinedPrecedence ==
  (Extracted /\ HasB3(carrier)) =>
    /\ \E gen \in Generated :
         /\ generated # None => gen = generated[1]
         /\ extract(OnlyB3(carrier), gen) =
              Result(span.context, generated # None)
    /\ ( /\ Separators(B3(carrier)) \in 1..3
         /\ HexOfLength(Fields(B3(carrier))[1], {16, 32})
         /\ HexOfLength(Fields(B3(carrier))[2], {16}) )
       => /\ span.context.trace_id = IntBase16(Fields(B3(carrier))[1])
          /\ span.context.span_id = IntBase16(Fields(B3(carrier))[2])

CombinedPrecedenceWitness ==
  /\ Extracted
  /\ HasB3(carrier)
  /\ B3(carrier) = Join(<<T32, S16, <<"0">>>>)
  /\ carrier[TRACE_ID_KEY] = <<T16>>
  /\ carrier[SPAN_ID_KEY] = <<S16Upper>>
  /\ carrier[SAMPLED_KEY] = <<<<"1">>>>
  /\ carrier[FLAGS_KEY] = <<<<"1">>>>
  /\ span.context = SpanContext(IntBase16(T32), IntBase16(S16), TRUE, FALSE)

\* C4: a b3 header with four or more '-' separators makes extract return
\* the invalid sentinel (trace_id 0, span_id 0, sampled false), whatever the
\* discrete headers hold, without a call of the generator.
MalformedPre == Extracted /\ HasB3(carrier) /\ Separators(B3(carrier)) >= 4

MalformedCombined ==
  MalformedPre =>
    /\ span.context.trace_id = INVALID_TRACE_ID
    /\ span.context.span_id = INVALID_SPAN_ID
    /\ ~span.context.sampled
    /\ generated = None

MalformedCombinedWitness ==
  /\ MalformedPre
  /\ B3(carrier) = B3Letters
  /\ carrier[TRACE_ID_KEY] = <<T16>>
  /\ carrier[SPAN_ID_KEY] = <<S16Upper>>
  /\ carrier[FLAGS_KEY] = <<<<"1">>>>
  /\ span.context.trace_id = INVALID_TRACE_ID

\* C5: inject of a span context whose trace_id and span_id are 0 never
\* calls the setter, whatever is_remote and the trace flags are.
NoOpInjection ==
  ( /\ Injected
    /\ span.context.trace_id = INVALID_TRACE_ID
    /\ span.context.span_id = INVALID_SPAN_ID )
  => writes = <<>>

\* the working values of the sampling decision: the sampled-indicator and
\* the debug flag
SampledIndicator(c) ==
  IF HasB3(c)
    THEN IF Separators(B3(c)) = 0 THEN B3(c)
         ELSE IF Separators(B3(c)) = 1 THEN <<"1">>
         ELSE Fields(B3(c))[3]
  ELSE IF First(c, SAMPLED_KEY) = <<>> THEN <<"0">>
  ELSE First(c, SAMPLED_KEY)

DebugFlag(c) == IF HasB3(c) THEN <<>> ELSE First(c, FLAGS_KEY)

\* the identifiers passed validation: the generator was not called and the
\* b3 header, if any, was not malformed
ValidatedPre ==
  /\ Extracted
  /\ generated = None
  /\ HasB3(carrier) => Separators(B3(carrier)) <= 3

KeysWrittenPre == Injected /\ span.context # INVALID_SPAN_CONTEXT

KeysWritten ==
  KeysWrittenPre =>
    LET keys == {writes[i].key : i \in DOMAIN writes}
    IN  /\ keys = {TRACE_ID_KEY, SPAN_ID_KEY, SAMPLED_KEY} \cup
                  (IF span.parent # None THEN {PARENT_SPAN_ID_KEY} ELSE {})
        /\ Len(writes) = Cardinality(keys)
        /\ \A i \in DOMAIN writes :
             /\ writes[i].key = PARENT_SPAN_ID_KEY => writes[i].value # <<>>
             /\ writes[i].key = SAMPLED_KEY =>
                  writes[i].value =
                    (IF span.context.sampled THEN <<"1">> ELSE <<"0">>)

KeysWrittenWitness ==
  /\ KeysWrittenPre
  /\ span.parent = None
  /\ ~span.context.sampled
  /\ span.context.trace_id = <<10, 11>>
  /\ Len(writes) = 3

IdsSupplied(c) ==
  IF HasB3(c) THEN Separators(B3(c)) \in 1..3
  ELSE First(c, TRACE_ID_KEY) # <<>> /\ First(c, SPAN_ID_KEY) # <<>>

\* C9: extract returns either identifiers decoded from carrier values that
\* passed validation, or generated or sentinel identifiers with
\* sampled = false; never sampled = true with identifiers the carrier did
\* not supply.
ReachableResults ==
  Extracted =>
    \/ /\ IdsSupplied(carrier)
       /\ generated = None
       /\ HexOfLength(TakenTraceId(carrier), {16, 32})
       /\ HexOfLength(TakenSpanId(carrier), {16})
       /\ span.context.trace_id = IntBase16(TakenTraceId(carrier))
       /\ span.context.span_id = IntBase16(TakenSpanId(carrier))
    \/ /\ ~span.context.sampled
       /\ \/ generated # None
          \/ /\ span.context.trace_id = INVALID_TRACE_ID
             /\ span.context.span_id = INVALID_SPAN_ID

\* C10: a b3 header with valid trace and span fields: 2 fields give those
\* identifiers sampled; 3 fields give them with sampled decided by the third
\* field alone; 4 fields give what the first three give, whatever the fourth
\* is; 1 field is the sampled-indicator only, and trace_id and span_id are 0.
FieldDispatchPre(n) ==
  /\ Extracted
  /\ HasB3(carrier)
  /\ Separators(B3(carrier)) = n - 1
  /\ n > 1 => /\ HexOfLength(Fields(B3(carrier))[1], {16, 32})
              /\ HexOfLength(Fields(B3(carrier))[2], {16})

FieldDispatch ==
  LET f == Fields(B3(carrier))
  IN  /\ FieldDispatchPre(1) =>
           span.context =
             SpanContext(INVALID_TRACE_ID, INVALID_SPAN_ID, TRUE,
                         f[1] \in TruthySpellings)
      /\ FieldDispatchPre(2) =>
           span.context =
             SpanContext(IntBase16(f[1]), IntBase16(f[2]), TRUE, TRUE)
      /\ FieldDispatchPre(3) \/ FieldDispatchPre(4) =>
           span.context =
             SpanContext(IntBase16(f[1]), IntBase16(f[2]), TRUE,
                         f[3] \in TruthySpellings)

FieldDispatchWitness ==
  /\ FieldDispatchPre(4)
  /\ Fields(B3(carrier)) = <<T16, S16, <<"d">>, NotHex>>
  /\ carrier[FLAGS_KEY] = <<>>
  /\ span.context = SpanContext(<<10, 11, 12, 13>>, IntBase16(S16), TRUE, TRUE)

====
